---- MODULE Spec2Model ----
(***************************************************************************)
(* Model of ray/intro_to_ray.ipynb: the moving-average functions, the      *)
(* timer functions, and the notebook's code cells executed top to bottom   *)
(* against a Ray worker pool.                                              *)
(*                                                                         *)
(* Numbers: np.mean over a slice is modelled exactly, as a reduced         *)
(* fraction <<numerator, denominator>>; the mean of an empty slice is NaN. *)
(* Sequence positions are 1-based in TLA+; the code's 0-based index j is   *)
(* position j + 1.                                                         *)
(***************************************************************************)
EXTENDS Integers, Sequences, FiniteSets, TLC

\* ------------------------------------------------------------------ bounds
MaxRows == 2          \* rows of a matrix handed to the function harness
MaxLen == 4           \* longest row handed to the function harness
MaxWindow == 3        \* largest window argument handed to the harness
NumRows == 2          \* rows of the notebook's data (1000 in the source)
NumCols == 12         \* columns of the notebook's data (1000 in the source)
NumSamples == 2       \* distinct rows the notebook's data is drawn from
MaxMachineCPUs == 4   \* CPUs of the machine the kernel runs on: 1..MaxMachineCPUs
RowCost == 1          \* clock ticks one row's moving average takes to compute

\* ------------------------------------------------------- program constants
DefaultWindow == 10   \* window=10
NumTimers == 4        \* range(4)
SleepSecs == 1        \* time.sleep(1)
NumCpusArg == 4       \* ray.init(num_cpus=4, ...)

\* ------------------------------------------------------------ numpy/python
Min(a, b) == IF a < b THEN a ELSE b
Max(a, b) == IF a > b THEN a ELSE b

RECURSIVE GCD(_, _)
GCD(a, b) == IF b = 0 THEN a ELSE GCD(b, a % b)

NaN == <<0, 0>>
Zero == <<0, 1>>

\* the exact quotient n / d (d > 0, n >= 0) in lowest terms
Frac(n, d) == LET g == GCD(n, d) IN <<n \div g, d \div g>>

RECURSIVE Sum(_)
Sum(s) == IF s = <<>> THEN 0 ELSE Head(s) + Sum(Tail(s))

\* np.mean of a one-dimensional array; nan for an empty one
Mean(s) == IF Len(s) = 0 THEN NaN ELSE Frac(Sum(s), Len(s))

\* Python's row[start:stop] for 0-based start and stop: a negative bound
\* counts from the end, and both are clamped to 0..len(row)
PyIndex(k, n) == IF k < 0 THEN Max(k + n, 0) ELSE Min(k, n)
PySlice(row, start, stop) ==
    SubSeq(row, PyIndex(start, Len(row)) + 1, PyIndex(stop, Len(row)))

\* np.zeros(shape) for a matrix of the shape of data
Zeros(data) == [i \in 1..Len(data) |-> [k \in 1..Len(data[i]) |-> Zero]]

\* np.allclose(a, b): on the exact fractions of this model two distinct means
\* of small integers differ by far more than the tolerance, and nan is close
\* to nothing
AllClose(a, b) ==
    /\ Len(a) = Len(b)
    /\ \A i \in 1..Len(a) :
         /\ Len(a[i]) = Len(b[i])
         /\ \A k \in 1..Len(a[i]) : a[i][k] # NaN /\ a[i][k] = b[i][k]

\* ------------------------------------------------- def calc_moving_average
\* (variants: a window of `window` elements; a slice taken at every index)
cma_slice_short(j, window) ==
    IF j > window THEN <<j - window + 1, j + 1>> ELSE <<0, j + 1>>
cma_slice_always(j, window) == <<j - window, j + 1>>

\* the slice bounds <<start, stop>> chosen for the 0-based index j:
\* row[j-window:j+1] if j > window else row[:j+1]
cma_slice(j, window) ==
    IF j > window THEN <<j - window, j + 1>> ELSE <<0, j + 1>>

\* the list comprehension over one row
cma_row(row, window) ==
    [k \in 1..Len(row) |->
        Mean(PySlice(row, cma_slice(k - 1, window)[1], cma_slice(k - 1, window)[2]))]

\* (variant: every iteration assigns row 0)
cma_step_first(ma, data, i, window) == [ma EXCEPT ![1] = cma_row(data[i], window)]

\* one iteration of `for i, row in enumerate(data)`: ma_data[i] = ...
cma_step(ma, data, i, window) == [ma EXCEPT ![i] = cma_row(data[i], window)]

RECURSIVE cma_loop(_, _, _, _)
cma_loop(ma, data, i, window) ==
    IF i > Len(data) THEN ma
    ELSE cma_loop(cma_step(ma, data, i, window), data, i + 1, window)

calc_moving_average(data, window) == cma_loop(Zeros(data), data, 1, window)

\* ------------------------- @ray.remote def calc_moving_average_ray (matrix)
cma_ray_slice(j, window) ==
    IF j > window THEN <<j - window, j + 1>> ELSE <<0, j + 1>>

cma_ray_row(row, window) ==
    [k \in 1..Len(row) |->
        Mean(PySlice(row, cma_ray_slice(k - 1, window)[1],
                          cma_ray_slice(k - 1, window)[2]))]

RECURSIVE cma_ray_loop(_, _, _, _)
cma_ray_loop(ma, data, i, window) ==
    IF i > Len(data) THEN ma
    ELSE cma_ray_loop([ma EXCEPT ![i] = cma_ray_row(data[i], window)],
                      data, i + 1, window)

calc_moving_average_ray_matrix(data, window) ==
    cma_ray_loop(Zeros(data), data, 1, window)

\* ---------------------------- @ray.remote def calc_moving_average_ray (row)
\* (variant: a window of `window` elements)
cma_ray2_slice_short(j, window) ==
    IF j > window THEN <<j - window + 1, j + 1>> ELSE <<0, j + 1>>

cma_ray2_slice(j, window) ==
    IF j > window THEN <<j - window, j + 1>> ELSE <<0, j + 1>>

calc_moving_average_ray_row(row, window) ==
    [k \in 1..Len(row) |->
        Mean(PySlice(row, cma_ray2_slice(k - 1, window)[1],
                          cma_ray2_slice(k - 1, window)[2]))]

\* ------------------------------------------------- def timer, def timer_ray
timer(x) == x
\* (variant: the sleep's duration is returned)
timer_ray_const(x) == SleepSecs
timer_ray(x) == x

\* =================================================================== state
VARIABLES
    \* --- the function harness: one call of each moving-average function
    fdata,        \* the matrix argument
    fwindow,      \* the window argument
    fpc,          \* "off", "call", "loop", "returned"
    fi,           \* the loop index i of calc_moving_average (1-based)
    fma,          \* the local ma_data of calc_moving_average
    fwrites,      \* fwrites[i]: how many times ma_data[i] has been assigned
    fret,         \* the value calc_moving_average returned
    frayM,        \* the value the matrix calc_moving_average_ray returned
    frayRows,     \* frayRows[i]: the value the row calc_moving_average_ray
                  \* returned for row i
    fdone,        \* which ray results are in: 0 for frayM, i for frayRows[i]
    \* --- the notebook kernel
    pc,           \* the cell about to run, or the call a running cell is in
    bound,        \* the names bound in the kernel's namespace
    raised,       \* the NameErrors raised so far
    now,          \* the wall clock, in ticks of one second
    busy,         \* ticks left in the main thread's current sleep or computation
    acc,          \* the list a running comprehension has built so far
    waiting,      \* the handles the running ray.get was given
    t0, values, data, ma_data, ma_data_ray, seq_time, par_time,
    cmaRayDef,    \* which definition calc_moving_average_ray is bound to
    out,          \* the value the last expression cell displayed
    elapsedOut,   \* the last printed 'Time Elapsed'
    matchOut,     \* the last printed 'Results match': "none", "True", "False"
    lastWrite,    \* lastWrite[n]: the cell whose statement last bound the
                  \* name n; "none" while n is unbound
    \* --- Ray
    machineCpus,  \* the CPUs of the machine
    rayCpus,      \* the CPUs of the running Ray instance; 0 when not started
    rayLog,       \* the error lines Ray has logged
    tasks,        \* the submitted tasks, by object id
    outOfOrder    \* whether, since the latest submission, a task has finished
                  \* before one submitted ahead of it

fnVars == <<fdata, fwindow, fpc, fi, fma, fwrites, fret, frayM, frayRows, fdone>>
nbVars == <<pc, bound, raised, now, busy, acc, waiting, t0, values, data,
            ma_data, ma_data_ray, seq_time, par_time, cmaRayDef, out,
            elapsedOut, matchOut, lastWrite>>
rayVars == <<machineCpus, rayCpus, rayLog, tasks, outOfOrder>>
vars == <<fnVars, nbVars, rayVars>>

\* ======================================================= function harness
\* the elements of a harness row
Values == {0, 1}
Rows(n) == [1..n -> Values]
Matrices == UNION {[1..r -> Rows(n)] : r \in 1..MaxRows, n \in 0..MaxLen}

FnIdle ==
    /\ fdata = <<>> /\ fwindow = DefaultWindow /\ fpc = "off" /\ fi = 0
    /\ fma = <<>> /\ fwrites = <<>> /\ fret = <<>> /\ frayM = <<>>
    /\ frayRows = <<>> /\ fdone = {}

FnInit ==
    /\ fdata \in Matrices
    /\ fwindow \in 1..MaxWindow
    /\ fpc = "call" /\ fi = 0
    /\ fma = <<>> /\ fwrites = [i \in 1..Len(fdata) |-> 0]
    /\ fret = <<>> /\ frayM = <<>>
    /\ frayRows = [i \in 1..Len(fdata) |-> <<>>]
    /\ fdone = {}

\* ma_data = np.zeros(data.shape)
CmaCall ==
    /\ fpc = "call"
    /\ fma' = Zeros(fdata)
    /\ fi' = 1
    /\ fpc' = "loop"
    /\ UNCHANGED <<fdata, fwindow, fwrites, fret, frayM, frayRows, fdone>>
    /\ UNCHANGED <<nbVars, rayVars>>

\* for i, row in enumerate(data): ma_data[i] = np.array([...])
CmaIter ==
    /\ fpc = "loop"
    /\ fi <= Len(fdata)
    /\ fma' = cma_step(fma, fdata, fi, fwindow)
    /\ fwrites' = [fwrites EXCEPT ![fi] = @ + 1]
    /\ fi' = fi + 1
    /\ UNCHANGED <<fdata, fwindow, fpc, fret, frayM, frayRows, fdone>>
    /\ UNCHANGED <<nbVars, rayVars>>

\* return ma_data
CmaReturn ==
    /\ fpc = "loop"
    /\ fi > Len(fdata)
    /\ fret' = fma
    /\ fpc' = "returned"
    /\ UNCHANGED <<fdata, fwindow, fi, fma, fwrites, frayM, frayRows, fdone>>
    /\ UNCHANGED <<nbVars, rayVars>>

\* the body of the matrix calc_moving_average_ray applied to the same matrix
RayMatrixApply ==
    /\ fpc = "returned"
    /\ fdone = {}
    /\ frayM' = calc_moving_average_ray_matrix(fdata, fwindow)
    /\ fdone' = fdone \cup {0}
    /\ UNCHANGED <<fdata, fwindow, fpc, fi, fma, fwrites, fret, frayRows>>
    /\ UNCHANGED <<nbVars, rayVars>>

\* the body of the row calc_moving_average_ray applied to row i, the rows
\* taken in order
RayRowApply(i) ==
    /\ fpc = "returned"
    /\ fdone = 0..(i - 1)
    /\ frayRows' = [frayRows EXCEPT ![i] = calc_moving_average_ray_row(fdata[i], fwindow)]
    /\ fdone' = fdone \cup {i}
    /\ UNCHANGED <<fdata, fwindow, fpc, fi, fma, fwrites, fret, frayM>>
    /\ UNCHANGED <<nbVars, rayVars>>

\* ================================================================ notebook
ctlVars == <<pc, bound, raised>>
clockVars == <<now, busy>>
dataVars == <<data, ma_data, ma_data_ray, seq_time, par_time>>
printVars == <<out, elapsedOut, matchOut>>

\* Python values that share a list with object ids carry their type
PyInt(x) == [type |-> "int", v |-> x]
PyNone == [type |-> "None", v |-> 0]
ObjectID(k) == [type |-> "ObjectID", v |-> k]
IsHandle(v) == v.type = "ObjectID"

\* A statement reads names and binds names.  The statements of a cell run in
\* order; the first one that reads an unbound name raises NameError and ends
\* the cell, the bindings made before it stay.
Stmt(reads, writes) == [reads |-> reads, writes |-> writes]

RECURSIVE NumRun(_, _)
NumRun(stmts, names) ==
    IF stmts = <<>> THEN 0
    ELSE IF Head(stmts).reads \subseteq names
         THEN 1 + NumRun(Tail(stmts), names \cup Head(stmts).writes)
         ELSE 0

Ran(stmts) == NumRun(stmts, bound)
BoundAfter(stmts) == bound \cup UNION {stmts[k].writes : k \in 1..Ran(stmts)}
RaisedAfter(cell, stmts) ==
    IF Ran(stmts) = Len(stmts) THEN raised
    ELSE raised \cup {[cell |-> cell, exc |-> "NameError",
                       names |-> stmts[Ran(stmts) + 1].reads \ BoundAfter(stmts)]}

\* the names the notebook binds, and who bound each last once the statements
\* of cell that run have run
Names == {"time", "np", "ray", "timer", "t0", "values", "timer_ray", "data",
          "calc_moving_average", "ma_data", "seq_time",
          "calc_moving_average_ray", "par_time", "ma_data_ray"}
WriterAfter(cell, stmts) ==
    [n \in Names |->
        IF \E k \in 1..Ran(stmts) : n \in stmts[k].writes THEN cell ELSE lastWrite[n]]

\* the data the notebook draws: NumRows rows of NumCols columns, each row an
\* impulse (a single 1 among zeros)
SampleRows == {[k \in 1..NumCols |-> IF k = p THEN 1 ELSE 0] : p \in 1..NumSamples}
DataSet == [1..NumRows -> SampleRows]

\* ------------------------------------------------------------------- Ray
\* ray.init(num_cpus, ignore_reinit_error) on an instance with cpusNow CPUs
\* (0: not started): a second call changes nothing; it logs an error when
\* ignore_reinit_error is set and raises otherwise
ray_init(cpusNow, logNow, num_cpus, ignore_reinit_error) ==
    IF cpusNow # 0
    THEN IF ignore_reinit_error
         THEN [cpus |-> cpusNow,
               log |-> Append(logNow, "Calling ray.init() again after it has already been called."),
               error |-> FALSE]
         ELSE [cpus |-> cpusNow, log |-> logNow, error |-> TRUE]
    ELSE [cpus |-> num_cpus, log |-> logNow, error |-> FALSE]

\* f.remote(arg): a new pending task; its object id is its position in tasks
NewTask(fn, arg) ==
    [fn |-> fn, arg |-> arg, st |-> "pending", left |-> 0, result |-> PyNone]

\* the ticks a task's body takes
TaskCost(t) ==
    CASE t.fn = "timer_ray" -> SleepSecs
      [] t.fn = "matrix" -> Len(t.arg) * RowCost
      [] t.fn = "row" -> RowCost

\* the value a task's body returns
TaskResult(t) ==
    CASE t.fn = "timer_ray" -> PyInt(timer_ray(t.arg))
      [] t.fn = "matrix" -> calc_moving_average_ray_matrix(t.arg, DefaultWindow)
      [] t.fn = "row" -> calc_moving_average_ray_row(t.arg, DefaultWindow)

NumRunning == Cardinality({h \in DOMAIN tasks : tasks[h].st = "running"})

\* ray.get(handles) returns when every one of them is done, with the results
\* in the order of the handles
\* (variant: the call returns as soon as one task is done)
RayGetAny(hs) == \E k \in 1..Len(hs) : tasks[hs[k].v].st = "done"
RayGetReady(hs) == \A k \in 1..Len(hs) : tasks[hs[k].v].st = "done"
ray_get(hs) == [k \in 1..Len(hs) |-> tasks[hs[k].v].result]

\* a worker takes a pending task when the instance has a free CPU
TaskStart(h) ==
    /\ h \in DOMAIN tasks
    /\ tasks[h].st = "pending"
    /\ NumRunning < rayCpus
    /\ tasks' = [tasks EXCEPT ![h].st = "running", ![h].left = TaskCost(tasks[h])]
    /\ UNCHANGED <<machineCpus, rayCpus, rayLog, outOfOrder>>
    /\ UNCHANGED <<fnVars, nbVars>>

\* a task whose body has run to its end stores its result
TaskFinish(h) ==
    /\ h \in DOMAIN tasks
    /\ tasks[h].st = "running"
    /\ tasks[h].left = 0
    /\ tasks' = [tasks EXCEPT ![h] = [fn |-> @.fn, arg |-> @.arg, st |-> "done",
                                      left |-> 0, result |-> TaskResult(@)]]
    /\ outOfOrder' = (outOfOrder \/ \E g \in 1..(h - 1) : tasks[g].st # "done")
    /\ UNCHANGED <<machineCpus, rayCpus, rayLog>>
    /\ UNCHANGED <<fnVars, nbVars>>

SleepPcs == {"c3_call", "c12_call"}
GetPcs == {"c8_get", "c9_get", "c14_get", "c16_get"}

MainCanReturn ==
    \/ pc \in SleepPcs /\ busy = 0
    \/ pc \in GetPcs /\ RayGetReady(waiting)

\* One second passes.  Dispatching a task, storing a result and returning
\* from a finished call take no time, so the clock moves only when none of
\* them is possible and something is sleeping or computing.
Tick ==
    /\ \/ busy > 0
       \/ \E h \in DOMAIN tasks : tasks[h].st = "running" /\ tasks[h].left > 0
    /\ ~ \E h \in DOMAIN tasks : tasks[h].st = "pending" /\ NumRunning < rayCpus
    /\ ~ \E h \in DOMAIN tasks : tasks[h].st = "running" /\ tasks[h].left = 0
    /\ ~ MainCanReturn
    /\ now' = now + 1
    /\ busy' = Max(busy - 1, 0)
    /\ tasks' = [h \in DOMAIN tasks |->
                   IF tasks[h].st = "running"
                   THEN [tasks[h] EXCEPT !.left = Max(@ - 1, 0)]
                   ELSE tasks[h]]
    /\ UNCHANGED <<pc, bound, raised, lastWrite, acc, waiting, t0, values, cmaRayDef>>
    /\ UNCHANGED <<dataVars, printVars, machineCpus, rayCpus, rayLog, outOfOrder, fnVars>>

\* ------------------------------------------------------------- the cells
NbInit ==
    /\ pc = "c1" /\ bound = {} /\ raised = {}
    /\ now = 0 /\ busy = 0 /\ acc = <<>> /\ waiting = <<>>
    /\ t0 = 0 /\ values = <<>> /\ data = <<>> /\ ma_data = <<>>
    /\ ma_data_ray = <<>> /\ seq_time = 0 /\ par_time = 0
    /\ cmaRayDef = "none"
    /\ lastWrite = [n \in Names |-> "none"]
    /\ out = [type |-> "none", v |-> <<>>]
    /\ elapsedOut = 0 /\ matchOut = "none"
    /\ machineCpus \in 1..MaxMachineCPUs
    /\ rayCpus = 0 /\ rayLog = <<>> /\ tasks = <<>> /\ outOfOrder = FALSE

\* a cell, or the rest of a cell, made only of statements that bind names
Plain(cell, next, stmts) ==
    /\ pc = cell
    /\ bound' = BoundAfter(stmts)
    /\ raised' = RaisedAfter(cell, stmts)
    /\ lastWrite' = WriterAfter(cell, stmts)
    /\ pc' = next

\* import time / import numpy as np / import ray
Cell1 ==
    /\ Plain("c1", "c2", <<Stmt({}, {"time"}), Stmt({}, {"np"}), Stmt({}, {"ray"})>>)
    /\ UNCHANGED <<clockVars, acc, waiting, t0, values, cmaRayDef>>
    /\ UNCHANGED <<dataVars, printVars, rayVars, fnVars>>

\* def timer(x)
Cell2 ==
    /\ Plain("c2", "c3", <<Stmt({}, {"timer"})>>)
    /\ UNCHANGED <<clockVars, acc, waiting, t0, values, cmaRayDef>>
    /\ UNCHANGED <<dataVars, printVars, rayVars, fnVars>>

\* t0 = time.time(); values = [timer(x) for x in range(4)] up to the first
\* time.sleep(1)
Cell3Stmts == <<Stmt({"time"}, {"t0"}), Stmt({"timer", "time"}, {})>>
Cell3 ==
    /\ pc = "c3"
    /\ bound' = BoundAfter(Cell3Stmts)
    /\ raised' = RaisedAfter("c3", Cell3Stmts)
    /\ lastWrite' = WriterAfter("c3", Cell3Stmts)
    /\ t0' = IF Ran(Cell3Stmts) >= 1 THEN now ELSE t0
    /\ IF Ran(Cell3Stmts) = 2
       THEN pc' = "c3_call" /\ acc' = <<>> /\ busy' = SleepSecs
       ELSE pc' = "c4" /\ UNCHANGED <<acc, busy>>
    /\ UNCHANGED <<now, waiting, values, cmaRayDef>>
    /\ UNCHANGED <<dataVars, printVars, rayVars, fnVars>>

\* timer(x) returns x after its sleep; the comprehension calls timer for the
\* next x, or the cell binds values and prints
Cell3EndStmts == <<Stmt({}, {"values"}), Stmt({"time", "t0"}, {}), Stmt({"values"}, {})>>
TimerReturn ==
    /\ pc = "c3_call"
    /\ busy = 0
    /\ LET acc2 == Append(acc, PyInt(timer(Len(acc)))) IN
       IF Len(acc2) < NumTimers
       THEN /\ acc' = acc2
            /\ busy' = SleepSecs
            /\ UNCHANGED <<ctlVars, values, elapsedOut, lastWrite>>
       ELSE /\ acc' = <<>>
            /\ bound' = BoundAfter(Cell3EndStmts)
            /\ raised' = RaisedAfter("c3", Cell3EndStmts)
            /\ lastWrite' = WriterAfter("c3", Cell3EndStmts)
            /\ values' = acc2
            /\ elapsedOut' = now - t0
            /\ pc' = "c4"
            /\ UNCHANGED busy
    /\ UNCHANGED <<now, waiting, t0, cmaRayDef, out, matchOut>>
    /\ UNCHANGED <<dataVars, rayVars, fnVars>>

\* ray.init(); ray.available_resources()['CPU']
Cell4Stmts == <<Stmt({"ray"}, {}), Stmt({"ray"}, {})>>
Cell4 ==
    /\ pc = "c4"
    /\ pc' = "c5"
    /\ bound' = BoundAfter(Cell4Stmts)
    /\ lastWrite' = WriterAfter("c4", Cell4Stmts)
    /\ LET r == ray_init(rayCpus, rayLog, machineCpus, FALSE) IN
       IF Ran(Cell4Stmts) = 0
       THEN /\ raised' = RaisedAfter("c4", Cell4Stmts)
            /\ UNCHANGED <<rayCpus, rayLog, out>>
       ELSE /\ rayCpus' = r.cpus
            /\ rayLog' = r.log
            /\ IF r.error
               THEN /\ raised' = raised \cup {[cell |-> "c4", exc |-> "RuntimeError", names |-> {}]}
                    /\ UNCHANGED out
               ELSE /\ raised' = raised
                    /\ out' = [type |-> "float", v |-> <<r.cpus>>]
    /\ UNCHANGED <<clockVars, acc, waiting, t0, values, cmaRayDef, elapsedOut, matchOut>>
    /\ UNCHANGED <<dataVars, machineCpus, tasks, outOfOrder, fnVars>>

\* ray.init(num_cpus=4, ignore_reinit_error=True)
Cell5Stmts == <<Stmt({"ray"}, {})>>
Cell5 ==
    /\ pc = "c5"
    /\ pc' = "c6"
    /\ bound' = BoundAfter(Cell5Stmts)
    /\ lastWrite' = WriterAfter("c5", Cell5Stmts)
    /\ LET r == ray_init(rayCpus, rayLog, NumCpusArg, TRUE) IN
       IF Ran(Cell5Stmts) = 0
       THEN /\ raised' = RaisedAfter("c5", Cell5Stmts)
            /\ UNCHANGED <<rayCpus, rayLog>>
       ELSE /\ rayCpus' = r.cpus
            /\ rayLog' = r.log
            /\ raised' = IF r.error
                         THEN raised \cup {[cell |-> "c5", exc |-> "RuntimeError", names |-> {}]}
                         ELSE raised
    /\ UNCHANGED <<clockVars, acc, waiting, t0, values, cmaRayDef>>
    /\ UNCHANGED <<dataVars, printVars, machineCpus, tasks, outOfOrder, fnVars>>

\* @ray.remote def timer_ray(x)
Cell6 ==
    /\ Plain("c6", "c7", <<Stmt({"ray"}, {"timer_ray"})>>)
    /\ UNCHANGED <<clockVars, acc, waiting, t0, values, cmaRayDef>>
    /\ UNCHANGED <<dataVars, printVars, rayVars, fnVars>>

\* the object ids of n tasks submitted now
NewHandles(n) == [k \in 1..n |-> ObjectID(Len(tasks) + k)]

\* t0 = time.time(); values = [timer_ray.remote(x) for x in range(4)]; print; print
Cell7Stmts == <<Stmt({"time"}, {"t0"}), Stmt({"timer_ray"}, {"values"}),
                Stmt({"time", "t0"}, {}), Stmt({"values"}, {})>>
Cell7 ==
    /\ pc = "c7"
    /\ pc' = "c8"
    /\ bound' = BoundAfter(Cell7Stmts)
    /\ raised' = RaisedAfter("c7", Cell7Stmts)
    /\ lastWrite' = WriterAfter("c7", Cell7Stmts)
    /\ t0' = IF Ran(Cell7Stmts) >= 1 THEN now ELSE t0
    /\ IF Ran(Cell7Stmts) >= 2
       THEN /\ tasks' = tasks \o [k \in 1..NumTimers |-> NewTask("timer_ray", k - 1)]
            /\ values' = NewHandles(NumTimers)
            /\ outOfOrder' = FALSE
       ELSE UNCHANGED <<tasks, values, outOfOrder>>
    /\ elapsedOut' = IF Ran(Cell7Stmts) >= 3 THEN now - t0' ELSE elapsedOut
    /\ UNCHANGED <<clockVars, acc, waiting, cmaRayDef, out, matchOut>>
    /\ UNCHANGED <<dataVars, machineCpus, rayCpus, rayLog, fnVars>>

\* ray.get(values): the call
Cell8Stmts == <<Stmt({"ray", "values"}, {})>>
Cell8 ==
    /\ pc = "c8"
    /\ bound' = BoundAfter(Cell8Stmts)
    /\ raised' = RaisedAfter("c8", Cell8Stmts)
    /\ lastWrite' = WriterAfter("c8", Cell8Stmts)
    /\ IF Ran(Cell8Stmts) = 1
       THEN pc' = "c8_get" /\ waiting' = values
       ELSE pc' = "c9" /\ UNCHANGED waiting
    /\ UNCHANGED <<clockVars, acc, t0, values, cmaRayDef>>
    /\ UNCHANGED <<dataVars, printVars, rayVars, fnVars>>

\* ray.get(values): the return; the cell displays the list
Cell8Return ==
    /\ pc = "c8_get"
    /\ RayGetReady(waiting)
    /\ out' = [type |-> "list", v |-> ray_get(waiting)]
    /\ waiting' = <<>>
    /\ pc' = "c9"
    /\ UNCHANGED <<bound, raised, lastWrite, clockVars, acc, t0, values, cmaRayDef>>
    /\ UNCHANGED <<dataVars, elapsedOut, matchOut, rayVars, fnVars>>

\* t0 = time.time(); values = ray.get([timer_ray.remote(x) for x in range(4)]):
\* the submissions and the call of ray.get
Cell9Stmts == <<Stmt({"time"}, {"t0"}), Stmt({"ray", "timer_ray"}, {})>>
Cell9 ==
    /\ pc = "c9"
    /\ bound' = BoundAfter(Cell9Stmts)
    /\ raised' = RaisedAfter("c9", Cell9Stmts)
    /\ lastWrite' = WriterAfter("c9", Cell9Stmts)
    /\ t0' = IF Ran(Cell9Stmts) >= 1 THEN now ELSE t0
    /\ IF Ran(Cell9Stmts) = 2
       THEN /\ tasks' = tasks \o [k \in 1..NumTimers |-> NewTask("timer_ray", k - 1)]
            /\ waiting' = NewHandles(NumTimers)
            /\ outOfOrder' = FALSE
            /\ pc' = "c9_get"
       ELSE pc' = "c10" /\ UNCHANGED <<tasks, waiting, outOfOrder>>
    /\ UNCHANGED <<clockVars, acc, values, cmaRayDef>>
    /\ UNCHANGED <<dataVars, printVars, machineCpus, rayCpus, rayLog, fnVars>>

\* ... the return of ray.get, the binding of values and the two prints
Cell9EndStmts == <<Stmt({}, {"values"}), Stmt({"time", "t0"}, {}), Stmt({"values"}, {})>>
Cell9Return ==
    /\ pc = "c9_get"
    /\ RayGetReady(waiting)
    /\ bound' = BoundAfter(Cell9EndStmts)
    /\ raised' = RaisedAfter("c9", Cell9EndStmts)
    /\ lastWrite' = WriterAfter("c9", Cell9EndStmts)
    /\ values' = ray_get(waiting)
    /\ elapsedOut' = now - t0
    /\ waiting' = <<>>
    /\ pc' = "c10"
    /\ UNCHANGED <<clockVars, acc, t0, cmaRayDef, out, matchOut>>
    /\ UNCHANGED <<dataVars, rayVars, fnVars>>

\* data = np.random.normal(size=(1000, 1000))
Cell10Stmts == <<Stmt({"np"}, {"data"})>>
Cell10 ==
    /\ pc = "c10"
    /\ pc' = "c11"
    /\ bound' = BoundAfter(Cell10Stmts)
    /\ raised' = RaisedAfter("c10", Cell10Stmts)
    /\ lastWrite' = WriterAfter("c10", Cell10Stmts)
    /\ IF Ran(Cell10Stmts) = 1
       THEN \E d \in DataSet : data' = d
       ELSE UNCHANGED data
    /\ UNCHANGED <<clockVars, acc, waiting, t0, values, cmaRayDef>>
    /\ UNCHANGED <<ma_data, ma_data_ray, seq_time, par_time, printVars, rayVars, fnVars>>

\* def calc_moving_average(data, window=10)
Cell11 ==
    /\ Plain("c11", "c12", <<Stmt({}, {"calc_moving_average"})>>)
    /\ UNCHANGED <<clockVars, acc, waiting, t0, values, cmaRayDef>>
    /\ UNCHANGED <<dataVars, printVars, rayVars, fnVars>>

\* t0 = time.time(); ma_data = calc_moving_average(data): the call
Cell12Stmts == <<Stmt({"time"}, {"t0"}), Stmt({"calc_moving_average", "data", "np"}, {})>>
Cell12 ==
    /\ pc = "c12"
    /\ bound' = BoundAfter(Cell12Stmts)
    /\ raised' = RaisedAfter("c12", Cell12Stmts)
    /\ lastWrite' = WriterAfter("c12", Cell12Stmts)
    /\ t0' = IF Ran(Cell12Stmts) >= 1 THEN now ELSE t0
    /\ IF Ran(Cell12Stmts) = 2
       THEN pc' = "c12_call" /\ busy' = Len(data) * RowCost
       ELSE pc' = "c13" /\ UNCHANGED busy
    /\ UNCHANGED <<now, acc, waiting, values, cmaRayDef>>
    /\ UNCHANGED <<dataVars, printVars, rayVars, fnVars>>

\* ... the return, seq_time = time.time() - t0, print
Cell12EndStmts == <<Stmt({}, {"ma_data"}), Stmt({"time", "t0"}, {"seq_time"}),
                    Stmt({"seq_time"}, {})>>
Cell12Return ==
    /\ pc = "c12_call"
    /\ busy = 0
    /\ bound' = BoundAfter(Cell12EndStmts)
    /\ raised' = RaisedAfter("c12", Cell12EndStmts)
    /\ lastWrite' = WriterAfter("c12", Cell12EndStmts)
    /\ ma_data' = calc_moving_average(data, DefaultWindow)
    /\ seq_time' = now - t0
    /\ elapsedOut' = now - t0
    /\ pc' = "c13"
    /\ UNCHANGED <<clockVars, acc, waiting, t0, values, cmaRayDef, out, matchOut>>
    /\ UNCHANGED <<data, ma_data_ray, par_time, rayVars, fnVars>>

\* @ray.remote def calc_moving_average_ray(data, window=10)
Cell13Stmts == <<Stmt({"ray"}, {"calc_moving_average_ray"})>>
Cell13 ==
    /\ Plain("c13", "c14", Cell13Stmts)
    /\ cmaRayDef' = IF Ran(Cell13Stmts) = 1 THEN "matrix" ELSE cmaRayDef
    /\ UNCHANGED <<clockVars, acc, waiting, t0, values>>
    /\ UNCHANGED <<dataVars, printVars, rayVars, fnVars>>

\* t0 = time.time(); ma_data = ray.get(calc_moving_average_ray.remote(data)):
\* the submission and the call of ray.get
Cell14Stmts == <<Stmt({"time"}, {"t0"}),
                 Stmt({"ray", "calc_moving_average_ray", "data"}, {})>>
Cell14 ==
    /\ pc = "c14"
    /\ bound' = BoundAfter(Cell14Stmts)
    /\ raised' = RaisedAfter("c14", Cell14Stmts)
    /\ lastWrite' = WriterAfter("c14", Cell14Stmts)
    /\ t0' = IF Ran(Cell14Stmts) >= 1 THEN now ELSE t0
    /\ IF Ran(Cell14Stmts) = 2
       THEN /\ tasks' = Append(tasks, NewTask(cmaRayDef, data))
            /\ waiting' = NewHandles(1)
            /\ outOfOrder' = FALSE
            /\ pc' = "c14_get"
       ELSE pc' = "c15" /\ UNCHANGED <<tasks, waiting, outOfOrder>>
    /\ UNCHANGED <<clockVars, acc, values, cmaRayDef>>
    /\ UNCHANGED <<dataVars, printVars, machineCpus, rayCpus, rayLog, fnVars>>

\* ... the return of ray.get, par_time = time.time() - t0, and the prints of
\* the time, of seq_time / par_time and of np.allclose(ma_data, ma_data_ray)
Cell14EndStmts == <<Stmt({}, {"ma_data"}), Stmt({"time", "t0"}, {"par_time"}),
                    Stmt({"par_time"}, {}), Stmt({"seq_time", "par_time"}, {}),
                    Stmt({"np", "ma_data", "ma_data_ray"}, {})>>
\* (variant: the result is bound to ma_data_ray, the name the last print reads)
Cell14ReturnToRay ==
    /\ pc = "c14_get"
    /\ RayGetReady(waiting)
    /\ LET stmts == <<Stmt({}, {"ma_data_ray"})>> \o Tail(Cell14EndStmts) IN
         /\ bound' = BoundAfter(stmts)
         /\ raised' = RaisedAfter("c14", stmts)
         /\ lastWrite' = WriterAfter("c14", stmts)
         /\ ma_data_ray' = ray_get(waiting)[1]
         /\ par_time' = now - t0
         /\ elapsedOut' = now - t0
         /\ matchOut' = IF Ran(stmts) = 5
                        THEN IF AllClose(ma_data, ma_data_ray') THEN "True" ELSE "False"
                        ELSE matchOut
    /\ waiting' = <<>>
    /\ pc' = "c15"
    /\ UNCHANGED <<clockVars, acc, t0, values, cmaRayDef, out>>
    /\ UNCHANGED <<data, ma_data, seq_time, rayVars, fnVars>>

Cell14Return ==
    /\ pc = "c14_get"
    /\ RayGetReady(waiting)
    /\ bound' = BoundAfter(Cell14EndStmts)
    /\ raised' = RaisedAfter("c14", Cell14EndStmts)
    /\ lastWrite' = WriterAfter("c14", Cell14EndStmts)
    /\ ma_data' = ray_get(waiting)[1]
    /\ par_time' = now - t0
    /\ elapsedOut' = now - t0
    /\ matchOut' = IF Ran(Cell14EndStmts) = 5
                   THEN IF AllClose(ma_data', ma_data_ray) THEN "True" ELSE "False"
                   ELSE matchOut
    /\ waiting' = <<>>
    /\ pc' = "c15"
    /\ UNCHANGED <<clockVars, acc, t0, values, cmaRayDef, out>>
    /\ UNCHANGED <<data, ma_data_ray, seq_time, rayVars, fnVars>>

\* @ray.remote def calc_moving_average_ray(row, window=10)
Cell15Stmts == <<Stmt({"ray"}, {"calc_moving_average_ray"})>>
Cell15 ==
    /\ Plain("c15", "c16", Cell15Stmts)
    /\ cmaRayDef' = IF Ran(Cell15Stmts) = 1 THEN "row" ELSE cmaRayDef
    /\ UNCHANGED <<clockVars, acc, waiting, t0, values>>
    /\ UNCHANGED <<dataVars, printVars, rayVars, fnVars>>

\* t0 = time.time(); ma_data_ray = np.array(ray.get(
\*     [calc_moving_average_ray.remote(row) for row in data])):
\* the submissions, one per row in the order of the rows, and the call of ray.get
Cell16Stmts == <<Stmt({"time"}, {"t0"}),
                 Stmt({"np", "ray", "calc_moving_average_ray", "data"}, {})>>
Cell16 ==
    /\ pc = "c16"
    /\ bound' = BoundAfter(Cell16Stmts)
    /\ raised' = RaisedAfter("c16", Cell16Stmts)
    /\ lastWrite' = WriterAfter("c16", Cell16Stmts)
    /\ t0' = IF Ran(Cell16Stmts) >= 1 THEN now ELSE t0
    /\ IF Ran(Cell16Stmts) = 2
       THEN /\ tasks' = tasks \o [i \in 1..Len(data) |-> NewTask(cmaRayDef, data[i])]
            /\ waiting' = NewHandles(Len(data))
            /\ outOfOrder' = FALSE
            /\ pc' = "c16_get"
       ELSE pc' = "end" /\ UNCHANGED <<tasks, waiting, outOfOrder>>
    /\ UNCHANGED <<clockVars, acc, values, cmaRayDef>>
    /\ UNCHANGED <<dataVars, printVars, machineCpus, rayCpus, rayLog, fnVars>>

\* ... the return of ray.get, np.array of the list, par_time and the prints
Cell16EndStmts == <<Stmt({}, {"ma_data_ray"}), Stmt({"time", "t0"}, {"par_time"}),
                    Stmt({"par_time"}, {}), Stmt({"seq_time", "par_time"}, {}),
                    Stmt({"np", "ma_data", "ma_data_ray"}, {})>>
Cell16Return ==
    /\ pc = "c16_get"
    /\ RayGetReady(waiting)
    /\ bound' = BoundAfter(Cell16EndStmts)
    /\ raised' = RaisedAfter("c16", Cell16EndStmts)
    /\ lastWrite' = WriterAfter("c16", Cell16EndStmts)
    /\ ma_data_ray' = ray_get(waiting)
    /\ par_time' = now - t0
    /\ elapsedOut' = now - t0
    /\ matchOut' = IF Ran(Cell16EndStmts) = 5
                   THEN IF AllClose(ma_data, ma_data_ray') THEN "True" ELSE "False"
                   ELSE matchOut
    /\ waiting' = <<>>
    /\ pc' = "end"
    /\ UNCHANGED <<clockVars, acc, t0, values, cmaRayDef, out>>
    /\ UNCHANGED <<data, ma_data, seq_time, rayVars, fnVars>>

\* ========================================================== specifications
\* the notebook, its cells run once each from top to bottom in a fresh kernel
Init == FnIdle /\ NbInit

Worker == \E h \in DOMAIN tasks : TaskStart(h) \/ TaskFinish(h)

Next ==
    \/ Cell1 \/ Cell2 \/ Cell3 \/ TimerReturn \/ Cell4 \/ Cell5 \/ Cell6
    \/ Cell7 \/ Cell8 \/ Cell8Return \/ Cell9 \/ Cell9Return \/ Cell10
    \/ Cell11 \/ Cell12 \/ Cell12Return \/ Cell13 \/ Cell14 \/ Cell14Return
    \/ Cell15 \/ Cell16 \/ Cell16Return
    \/ (\E h \in DOMAIN tasks : TaskStart(h))
    \/ (\E h \in DOMAIN tasks : TaskFinish(h))
    \/ Tick

Spec == Init /\ [][Next]_vars

\* the same with the scheduling Ray and the kernel provide: a worker that can
\* take or finish a task does, time passes, and a call that can return does
Returns == TimerReturn \/ Cell8Return \/ Cell9Return \/ Cell12Return
           \/ Cell14Return \/ Cell16Return
FairSpec ==
    /\ Spec
    /\ WF_vars(Worker)
    /\ WF_vars(Tick)
    /\ WF_vars(Returns)

\* the three moving-average functions, each called once on a bounded matrix
InitMA == FnInit /\ NbInit /\ machineCpus = 1

NextMA ==
    \/ CmaCall \/ CmaIter \/ CmaReturn \/ RayMatrixApply
    \/ (\E i \in 1..Len(fdata) : RayRowApply(i))

SpecMA == InitMA /\ [][NextMA]_vars

\* ================================================================== claims
\* the arithmetic mean of row's elements at the 0-based indices lo..hi
RECURSIVE SumRange(_, _, _)
SumRange(row, lo, hi) == IF lo > hi THEN 0 ELSE row[lo + 1] + SumRange(row, lo + 1, hi)
MeanOfRange(row, lo, hi) == Frac(SumRange(row, lo, hi), hi - lo + 1)

\* the indices i of the rows of the harness matrix, the 0-based indices j of a row
FRows == 1..Len(fdata)
FIdx(i) == 0..(Len(fdata[i]) - 1)

C2_PrefixMean ==
    /\ \A i \in FRows : \A j \in FIdx(i) : cma_slice(j, fwindow)[1] >= 0
    /\ fpc = "returned" =>
         \A i \in FRows : \A j \in FIdx(i) :
            j < fwindow => fret[i][j + 1] = MeanOfRange(fdata[i], 0, j)

C2_Witness ==
    /\ fpc = "returned"
    /\ fwindow >= 2
    /\ \E i \in FRows :
         /\ Len(fdata[i]) >= 2
         /\ fdata[i][1] = 1 /\ fdata[i][2] = 0
         /\ fret[i][2] = <<1, 2>>

\* C3: every output element is the mean of at most `window` input elements,
\* and of exactly `window` of them from index window-1 on.
C3_WindowOfWindowElements ==
    fpc = "returned" =>
        \A i \in FRows : \A j \in FIdx(i) :
            fret[i][j + 1] = MeanOfRange(fdata[i], Max(0, j - fwindow + 1), j)

\* the moving average of a matrix with the default window, row by row
RefMA(d) ==
    [i \in 1..Len(d) |->
        [k \in 1..Len(d[i]) |-> MeanOfRange(d[i], Max(0, k - 1 - DefaultWindow), k - 1)]]

\* C4: the sequential call, the single remote task on the whole matrix and
\* the one-task-per-row decomposition, its tasks finishing in any order, all
\* yield the same matrix, row i being the moving average of row i of data.
C4_StrategiesAgree ==
    /\ "ma_data" \in bound => ma_data = RefMA(data)
    /\ "ma_data_ray" \in bound =>
         /\ ma_data_ray = RefMA(data)
         /\ ma_data_ray = ma_data
         /\ matchOut = "True"

C4_Witness ==
    /\ pc = "end"
    /\ matchOut = "True"
    /\ data[1] # data[2]
    /\ outOfOrder

\* C5: the output for a row of n elements has n elements, the matrix
\* calc_moving_average returns has the shape of its input, and every row of
\* it is assigned exactly once, none being left at its zero fill unless its
\* averages are zero.
C5_ShapeAndWrites ==
    /\ fpc \in {"loop", "returned"} => \A i \in FRows : fwrites[i] <= 1
    /\ fpc = "returned" =>
         /\ Len(fret) = Len(fdata)
         /\ \A i \in FRows :
              /\ Len(fret[i]) = Len(fdata[i])
              /\ fwrites[i] = 1
              /\ fret[i] = Zeros(fdata)[i] => \A j \in FIdx(i) : fdata[i][j + 1] = 0
    /\ \A i \in fdone \ {0} : Len(frayRows[i]) = Len(fdata[i])

C5_Witness ==
    /\ fpc = "returned"
    /\ Len(fdata) = 2
    /\ Len(fdata[2]) = 3
    /\ fret[2] # Zeros(fdata)[2]
    /\ 2 \in fdone

\* [x for x in range(4)] as the kernel holds it
RangeList == [k \in 1..NumTimers |-> PyInt(k - 1)]
AfterCell9 == {"c10", "c11", "c12", "c12_call", "c13", "c14", "c14_get",
               "c15", "c16", "c16_get", "end"}

\* C6: timer and timer_ray return their argument, and ray.get over the four
\* remote timer tasks yields [0, 1, 2, 3] whatever the order they finish in,
\* the list the sequential comprehension over timer yields.
C6_TimerLists ==
    /\ pc = "c4" => values = RangeList
    /\ out.type = "list" => out.v = RangeList
    /\ pc \in AfterCell9 => values = RangeList

C6_Witness ==
    /\ pc = "c10"
    /\ values = RangeList
    /\ outOfOrder

\* C7: submitting the remote tasks returns at once with handles, before any
\* task has run, and values holds handles; values are materialized only by
\* ray.get, which returns only when every task it was given is done, and
\* which eventually returns.
C7_HandlesAndGet ==
    /\ [][(pc = "c7" /\ pc' = "c8") =>
            /\ now' = now
            /\ Len(values') = NumTimers
            /\ \A k \in 1..Len(values') :
                 IsHandle(values'[k]) /\ tasks'[values'[k].v].st = "pending"]_vars
    /\ [](pc \in {"c8", "c8_get"} => \A k \in 1..Len(values) : IsHandle(values[k]))
    /\ [][(pc \in GetPcs /\ pc' # pc) =>
            \A k \in 1..Len(waiting) : tasks[waiting[k].v].st = "done"]_vars
    /\ [](out.type = "list" => \A k \in 1..Len(out.v) : out.v[k].type = "int")
    /\ (pc \in GetPcs) ~> (pc \notin GetPcs)

C7_Witness ==
    /\ pc = "c9"
    /\ out.type = "list"
    /\ Len(out.v) = NumTimers
    /\ \A k \in 1..Len(values) : IsHandle(values[k])
    /\ now > t0

\* C8: never more remote tasks run at once than the configured 4 CPUs, no
\* task waits while one of them is free, so the four timer tasks sleep
\* together and ray.get has them after one sleep, the sequential loop after
\* four.
C8_FourWorkers ==
    /\ NumRunning <= NumCpusArg
    /\ (pc = "c9_get" /\ \E k \in 1..Len(waiting) :
                            \/ tasks[waiting[k].v].st = "done"
                            \/ /\ tasks[waiting[k].v].st = "running"
                               /\ tasks[waiting[k].v].left < SleepSecs)
          => \A k \in 1..Len(waiting) : tasks[waiting[k].v].st # "pending"
    /\ pc = "c4" => elapsedOut = NumTimers * SleepSecs
    /\ pc = "c10" => elapsedOut = SleepSecs

\* C9: run top to bottom in a fresh kernel, every cell runs to its end: no
\* cell reads a name that is not bound yet.
C9_NoNameError == raised = {}

\* C10: with Ray already started, ray.init(num_cpus=4, ignore_reinit_error=True)
\* does not raise and leaves Ray with 4 CPUs; without ignore_reinit_error the
\* same call raises.
BeforeCell6 == {"c1", "c2", "c3", "c3_call", "c4", "c5"}
C10_ReinitWithFour ==
    pc \notin BeforeCell6 =>
        /\ \A e \in raised : e.cell # "c5"
        /\ rayCpus = NumCpusArg
        /\ ray_init(rayCpus, rayLog, NumCpusArg, FALSE).error

\* C11: seq_time is bound by the sequential timing cell only and no later
\* cell changes it, while the whole-matrix remote cell binds ma_data again;
\* so from that cell on, the final np.allclose(ma_data, ma_data_ray)
\* included, ma_data is the result of the whole-matrix remote task and no
\* longer the value the sequential call returned.
AfterCell14 == {"c15", "c16", "c16_get", "end"}
C11_LastWriters ==
    /\ [][pc # "c12_call" =>
            /\ seq_time' = seq_time
            /\ lastWrite'["seq_time"] = lastWrite["seq_time"]]_vars
    /\ [](lastWrite["seq_time"] \in {"none", "c12"})
    /\ [](pc \in {"c13", "c14", "c14_get"} => lastWrite["ma_data"] = "c12")
    /\ [](pc \in AfterCell14 =>
            /\ lastWrite["ma_data"] = "c14"
            /\ \E h \in DOMAIN tasks :
                 /\ tasks[h].fn = "matrix"
                 /\ tasks[h].st = "done"
                 /\ ma_data = tasks[h].result)
    /\ [][(pc = "c16_get" /\ pc' = "end") =>
            /\ lastWrite["ma_data"] = "c14"
            /\ ma_data' = ma_data
            /\ matchOut' # "none"]_vars

C11_Witness ==
    /\ pc = "end"
    /\ lastWrite["ma_data"] = "c14"
    /\ lastWrite["seq_time"] = "c12"
    /\ lastWrite["ma_data_ray"] = "c16"
    /\ seq_time = Len(data) * RowCost
    /\ par_time # seq_time
    /\ matchOut = "True"

====
